---- MODULE Spec2Model ----
(***************************************************************************)
(* Invoice form of src/invoice_app/main.py: the item list, the two rate    *)
(* fields, the table and the four totals labels, with the decimal          *)
(* arithmetic, parsing and formatting the handlers use.                    *)
(*                                                                         *)
(* A text is a sequence of one-character strings.  A decimal.Decimal is a  *)
(* record [k, s, c, e]: k is "fin" (value (-1)^s * c * 10^e), "inf", "nan" *)
(* (quiet, payload c) or "snan"; k = "InvalidOperation" stands for the     *)
(* exception decimal.InvalidOperation leaving the expression.  A text      *)
(* result that raised is the one-element sequence Raised.                  *)
(***************************************************************************)
EXTENDS Integers, Sequences, FiniteSets, TLC

VARIABLES items, tree, vat_rate_var, withholding_rate_var,
          base_amount_label, vat_amount_label, withholding_amount_label,
          total_amount_label, outcome, probe, pdf

\* outcome is what the handler that ran last showed or raised, pdf the
\* document it saved: <<lines, totals>>, or <<>> when it saved none
vars == <<items, tree, vat_rate_var, withholding_rate_var,
          base_amount_label, vat_amount_label, withholding_amount_label,
          total_amount_label, outcome, probe, pdf>>

labels == <<base_amount_label, vat_amount_label, withholding_amount_label,
            total_amount_label>>

----------------------------------------------------------------------------
(* Bounds of the model *)

\* longest item list the model builds
MaxItems == 2

\* longest text given to the functions of the form
MaxLen == 4

\* decimal.getcontext().prec of the default context the program runs in
Prec == 28

----------------------------------------------------------------------------
(* Characters and texts *)

DigitChars == <<"0", "1", "2", "3", "4", "5", "6", "7", "8", "9">>

IsDigit(ch) == \E i \in 1..10 : DigitChars[i] = ch

DigitVal(ch) == (CHOOSE i \in 1..10 : DigitChars[i] = ch) - 1

\* str.lower on the letters the numeric-string grammar names
Lower(ch) ==
  CASE ch = "E" -> "e" [] ch = "I" -> "i" [] ch = "N" -> "n" [] ch = "F" -> "f"
    [] ch = "A" -> "a" [] ch = "S" -> "s" [] ch = "T" -> "t" [] ch = "Y" -> "y"
    [] OTHER -> ch

LowerText(t) == [i \in 1..Len(t) |-> Lower(t[i])]

IsSpace(ch) == ch \in {" ", "\t", "\n"}

\* str.replace(old, new) for one-character old and new
Replace(t, old, new) == [i \in 1..Len(t) |-> IF t[i] = old THEN new ELSE t[i]]

\* str.lstrip(): drop leading whitespace
LStrip(t) ==
  LET keep == {i \in 1..Len(t) : ~IsSpace(t[i])}
  IN IF keep = {} THEN <<>>
     ELSE SubSeq(t, CHOOSE i \in keep : \A j \in keep : i <= j, Len(t))

\* str.rstrip(chars): drop trailing characters that are in chars
RStripSet(t, chars) ==
  LET keep == {i \in 1..Len(t) : t[i] \notin chars}
  IN IF keep = {} THEN <<>>
     ELSE SubSeq(t, 1, CHOOSE i \in keep : \A j \in keep : i >= j)

\* str.strip()
Strip(t) == RStripSet(LStrip(t), {" ", "\t", "\n"})

\* every character of t is a decimal digit
AllDigits(t) == \A i \in 1..Len(t) : IsDigit(t[i])

\* 10^n for the n a 32-bit coefficient can need
Pow10(n) ==
  <<1, 10, 100, 1000, 10000, 100000, 1000000, 10000000, 100000000,
    1000000000>>[(IF n < 0 THEN 0 ELSE n) + 1]

\* len(str(c)) for a natural number c
NumDigits(c) == IF c < 10 THEN 1 ELSE 1 + (CHOOSE n \in 1..9 : c \div Pow10(n) \in 1..9)

\* int() of a digit text; the empty text is 0
DigitsToNat(t) ==
  LET val[i \in 0..Len(t)] == IF i = 0 THEN 0 ELSE 10 * val[i - 1] + DigitVal(t[i])
  IN val[Len(t)]

\* str() of a natural number
NatToDigits(n) ==
  LET len == NumDigits(n)
  IN [i \in 1..len |-> DigitChars[((n \div Pow10(len - i)) % 10) + 1]]

\* n zeros, none for a negative n
Zeros(n) == [i \in 1..(IF n < 0 THEN 0 ELSE n) |-> "0"]

RemoveChar(t, ch) == SelectSeq(t, LAMBDA x : x # ch)

\* position of the first ch in t, 0 when there is none
FirstIndex(t, ch) ==
  IF \E i \in 1..Len(t) : t[i] = ch
  THEN CHOOSE i \in 1..Len(t) : t[i] = ch /\ \A j \in 1..(i - 1) : t[j] # ch
  ELSE 0

Count(t, ch) == Cardinality({i \in 1..Len(t) : t[i] = ch})

\* the text a raising call leaves in place of its result
Raised == <<"InvalidOperation">>

\* a local name: body(x) with x bound to the value computed once
With(x, body(_)) == body(x)

----------------------------------------------------------------------------
(* decimal.Decimal *)

Fin(s, c, e) == [k |-> "fin", s |-> s, c |-> c, e |-> e]

Inf(s) == [k |-> "inf", s |-> s, c |-> 0, e |-> 0]

NaN(s, payload) == [k |-> "nan", s |-> s, c |-> payload, e |-> 0]

SNaN(s, payload) == [k |-> "snan", s |-> s, c |-> payload, e |-> 0]

InvalidOperation == [k |-> "InvalidOperation", s |-> 0, c |-> 0, e |-> 0]

IsRaise(d) == d.k = "InvalidOperation"

Xor(a, b) == IF a = b THEN 0 ELSE 1

\* Decimal.__mul__ under the default context.  The context rounds a
\* coefficient of more than Prec digits; the coefficients the model draws stay
\* far below that, so the product is exact.
Mul(a, b) ==
  IF IsRaise(a) \/ IsRaise(b) THEN InvalidOperation
  ELSE IF a.k = "snan" \/ b.k = "snan" THEN InvalidOperation
  ELSE IF a.k = "nan" THEN a
  ELSE IF b.k = "nan" THEN b
  ELSE IF a.k = "inf"
    THEN IF b.k = "fin" /\ b.c = 0 THEN InvalidOperation ELSE Inf(Xor(a.s, b.s))
  ELSE IF b.k = "inf"
    THEN IF a.c = 0 THEN InvalidOperation ELSE Inf(Xor(a.s, b.s))
  ELSE Fin(Xor(a.s, b.s), a.c * b.c, a.e + b.e)

\* x / Decimal("100"): the quotient is exact, two places further right
Div100(a) ==
  IF IsRaise(a) \/ a.k = "snan" THEN InvalidOperation
  ELSE IF a.k = "nan" \/ a.k = "inf" THEN a
  ELSE Fin(a.s, a.c, a.e - 2)

\* Decimal.__add__ under the default context
Add(a, b) ==
  IF IsRaise(a) \/ IsRaise(b) THEN InvalidOperation
  ELSE IF a.k = "snan" \/ b.k = "snan" THEN InvalidOperation
  ELSE IF a.k = "nan" THEN a
  ELSE IF b.k = "nan" THEN b
  ELSE IF a.k = "inf"
    THEN IF b.k = "inf" /\ a.s # b.s THEN InvalidOperation ELSE a
  ELSE IF b.k = "inf" THEN b
  ELSE LET e  == IF a.e < b.e THEN a.e ELSE b.e
           ca == a.c * Pow10(a.e - e)
           cb == b.c * Pow10(b.e - e)
           va == IF a.s = 1 THEN 0 - ca ELSE ca
           vb == IF b.s = 1 THEN 0 - cb ELSE cb
           v  == va + vb
       IN IF v = 0 THEN Fin(IF a.s = 1 /\ b.s = 1 THEN 1 ELSE 0, 0, e)
          ELSE IF v < 0 THEN Fin(1, 0 - v, e)
          ELSE Fin(0, v, e)

\* Decimal.__sub__: the NaN checks come before the operand is negated
Sub(a, b) ==
  IF IsRaise(a) \/ IsRaise(b) THEN InvalidOperation
  ELSE IF a.k = "snan" \/ b.k = "snan" THEN InvalidOperation
  ELSE IF a.k = "nan" THEN a
  ELSE IF b.k = "nan" THEN b
  ELSE Add(a, [b EXCEPT !.s = 1 - b.s])

\* x.quantize(Decimal("1E<exp>"), rounding=ROUND_HALF_UP): exp is -2 or -3
QuantizeHalfUp(a, exp) ==
  IF IsRaise(a) \/ a.k = "snan" \/ a.k = "inf" THEN InvalidOperation
  ELSE IF a.k = "nan" THEN a
  ELSE IF a.c = 0 THEN Fin(a.s, 0, exp)
  ELSE IF NumDigits(a.c) + a.e - exp > Prec THEN InvalidOperation
  ELSE IF a.e >= exp THEN Fin(a.s, a.c * Pow10(a.e - exp), exp)
  ELSE LET d == exp - a.e
       IN IF d > NumDigits(a.c) THEN Fin(a.s, 0, exp)
          ELSE LET q == a.c \div Pow10(d)
                   r == a.c % Pow10(d)
               IN Fin(a.s, IF 2 * r >= Pow10(d) THEN q + 1 ELSE q, exp)

\* x.quantize(Decimal("1E<exp>")) under the default context, whose rounding is
\* ROUND_HALF_EVEN: exp is -2
QuantizeHalfEven(a, exp) ==
  IF IsRaise(a) \/ a.k = "snan" \/ a.k = "inf" THEN InvalidOperation
  ELSE IF a.k = "nan" THEN a
  ELSE IF a.c = 0 THEN Fin(a.s, 0, exp)
  ELSE IF NumDigits(a.c) + a.e - exp > Prec THEN InvalidOperation
  ELSE IF a.e >= exp THEN Fin(a.s, a.c * Pow10(a.e - exp), exp)
  ELSE LET d == exp - a.e
       IN IF d > NumDigits(a.c) THEN Fin(a.s, 0, exp)
          ELSE LET q == a.c \div Pow10(d)
                   r == a.c % Pow10(d)
               IN Fin(a.s,
                      IF 2 * r > Pow10(d) \/ (2 * r = Pow10(d) /\ q % 2 = 1)
                      THEN q + 1 ELSE q,
                      exp)

----------------------------------------------------------------------------
(* Decimal(str): the numeric-string grammar of the decimal module *)

\* [sign] digits with at most one "." and at least one digit
IsMantissa(m) ==
  /\ Count(m, ".") <= 1
  /\ \A i \in 1..Len(m) : IsDigit(m[i]) \/ m[i] = "."
  /\ \E i \in 1..Len(m) : IsDigit(m[i])

\* the part after the exponent indicator: [sign] digits, at least one digit
IsExponent(x) ==
  LET ds == IF x # <<>> /\ Head(x) \in {"+", "-"} THEN Tail(x) ELSE x
  IN ds # <<>> /\ AllDigits(ds)

ExponentVal(x) ==
  IF x = <<>> THEN 0
  ELSE IF Head(x) = "-" THEN 0 - DigitsToNat(Tail(x))
  ELSE IF Head(x) = "+" THEN DigitsToNat(Tail(x))
  ELSE DigitsToNat(x)

StartsWith(t, p) == Len(t) >= Len(p) /\ SubSeq(t, 1, Len(p)) = p

\* the finite value of mantissa mant (its "." at position di, 0 for none)
\* scaled by the exponent ev
FiniteFromParts(sgn, mant, di, ev) ==
  LET ip == IF di = 0 THEN mant ELSE SubSeq(mant, 1, di - 1)
      fp == IF di = 0 THEN <<>> ELSE SubSeq(mant, di + 1, Len(mant))
  IN Fin(sgn, DigitsToNat(ip \o fp), ev - Len(fp))

\* decimal-part [exponent-part]: ei is the position of the exponent
\* indicator in body, 0 for none
NumberFromText(sgn, body, ei) ==
  LET mant == IF ei = 0 THEN body ELSE SubSeq(body, 1, ei - 1)
      expo == IF ei = 0 THEN <<>> ELSE SubSeq(body, ei + 1, Len(body))
  IN IF IsMantissa(mant) /\ (ei = 0 \/ IsExponent(expo))
     THEN FiniteFromParts(sgn, mant, FirstIndex(mant, "."), ExponentVal(expo))
     ELSE InvalidOperation

\* numeric-value | nan, after the sign, in lower case
UnsignedFromText(sgn, body) ==
  IF body = <<"i", "n", "f">>
     \/ body = <<"i", "n", "f", "i", "n", "i", "t", "y">>
  THEN Inf(sgn)
  ELSE IF StartsWith(body, <<"n", "a", "n">>)
          /\ AllDigits(SubSeq(body, 4, Len(body)))
  THEN NaN(sgn, DigitsToNat(SubSeq(body, 4, Len(body))))
  ELSE IF StartsWith(body, <<"s", "n", "a", "n">>)
          /\ AllDigits(SubSeq(body, 5, Len(body)))
  THEN SNaN(sgn, DigitsToNat(SubSeq(body, 5, Len(body))))
  ELSE NumberFromText(sgn, body, FirstIndex(body, "e"))

\* Decimal(value) for a str: surrounding whitespace and underscores are
\* dropped, letters match in either case; a text outside the grammar raises
\* InvalidOperation (ConversionSyntax)
DecimalFromText(value) ==
  With(RemoveChar(Strip(value), "_"), LAMBDA t :
    UnsignedFromText(
      IF t # <<>> /\ Head(t) = "-" THEN 1 ELSE 0,
      LowerText(IF t # <<>> /\ Head(t) \in {"+", "-"} THEN Tail(t) ELSE t)))

----------------------------------------------------------------------------
(* Parsing and formatting of the form *)

\* _parse_decimal without the replacement of commas
parse_decimal_KeepsComma(value) ==
  With(Strip(value), LAMBDA normalized :
    IF normalized = <<>> THEN InvalidOperation
    ELSE DecimalFromText(normalized))

\* InvoiceApp._parse_decimal
parse_decimal(value) ==
  With(Strip(Replace(value, ",", ".")), LAMBDA normalized :
    IF normalized = <<>> THEN InvalidOperation
    ELSE DecimalFromText(normalized))

\* InvoiceApp._safe_rate
safe_rate(value) ==
  With(parse_decimal(value), LAMBDA d :
    IF IsRaise(d) THEN Fin(0, 0, 0) ELSE d)

\* format(d, "f") and f"{d:.2f}" of a quantized Decimal: a finite d has
\* exponent -2 or -3 here, a NaN prints as NaN with its payload
FormatDigits(d, sign, ds) ==
  IF d.k = "nan"
  THEN sign \o <<"N", "a", "N">> \o (IF d.c = 0 THEN <<>> ELSE ds)
  ELSE IF d.k = "inf"
  THEN sign \o <<"I", "n", "f", "i", "n", "i", "t", "y">>
  ELSE IF d.k = "snan"
  THEN sign \o <<"s", "N", "a", "N">> \o (IF d.c = 0 THEN <<>> ELSE ds)
  ELSE IF d.e >= 0
  THEN sign \o ds \o (IF d.c = 0 THEN <<>> ELSE Zeros(d.e))
  ELSE LET places == 0 - d.e
           padded == Zeros(places + 1 - Len(ds)) \o ds
       IN sign \o SubSeq(padded, 1, Len(padded) - places) \o <<".">>
               \o SubSeq(padded, Len(padded) - places + 1, Len(padded))

FormatF(d) ==
  IF IsRaise(d) THEN Raised
  ELSE FormatDigits(d, IF d.s = 1 THEN <<"-">> ELSE <<>>, NatToDigits(d.c))

\* InvoiceApp._format_currency
format_currency(value) ==
  With(QuantizeHalfUp(value, -2), LAMBDA quantized :
    IF IsRaise(quantized) THEN Raised
    ELSE Replace(FormatF(quantized), ".", ","))

\* InvoiceApp._format_quantity
format_quantity(value) ==
  With(QuantizeHalfUp(value, -3), LAMBDA quantized :
    IF IsRaise(quantized) THEN Raised
    ELSE With(RStripSet(RStripSet(FormatF(quantized), {"0"}), {"."}),
              LAMBDA text :
                Replace(IF text = <<>> THEN <<"0">> ELSE text, ".", ",")))

\* _format_rate with the rounding of _format_currency
format_rate_HalfUp(value) ==
  With(QuantizeHalfUp(value, -2), LAMBDA quantized :
    IF IsRaise(quantized) THEN Raised
    ELSE With(RStripSet(RStripSet(FormatF(quantized), {"0"}), {"."}),
              LAMBDA text :
                Replace(IF text = <<>> THEN <<"0">> ELSE text, ".", ",")
                  \o <<"%">>))

\* InvoiceApp._format_rate
format_rate(value) ==
  With(QuantizeHalfEven(value, -2), LAMBDA quantized :
    IF IsRaise(quantized) THEN Raised
    ELSE With(RStripSet(RStripSet(FormatF(quantized), {"0"}), {"."}),
              LAMBDA text :
                Replace(IF text = <<>> THEN <<"0">> ELSE text, ".", ",")
                  \o <<"%">>))

\* InvoiceItem.total
item_total(item) == QuantizeHalfUp(Mul(item.quantity, item.unit_price), -2)

----------------------------------------------------------------------------
(* Totals *)

RECURSIVE SumTotals(_, _)
\* sum((item.total for item in its), start)
SumTotals(its, start) ==
  IF its = <<>> THEN start
  ELSE SumTotals(Tail(its), Add(start, item_total(Head(its))))

\* _update_totals with the total rounded once from the combined rate
AmountsOf_CombinedRounding(base_amount, vat_rate, withholding_rate) ==
  With(QuantizeHalfUp(Div100(Mul(base_amount, vat_rate)), -2),
       LAMBDA vat_amount :
  With(QuantizeHalfUp(Div100(Mul(base_amount, withholding_rate)), -2),
       LAMBDA withholding_amount :
  With(QuantizeHalfUp(Mul(base_amount,
         Add(Fin(0, 1, 0), Div100(Sub(vat_rate, withholding_rate)))), -2),
       LAMBDA total_amount :
    [base   |-> base_amount,
     vat    |-> vat_amount,
     wh     |-> withholding_amount,
     total  |-> total_amount,
     raised |-> \/ IsRaise(base_amount) \/ IsRaise(vat_amount)
                \/ IsRaise(withholding_amount) \/ IsRaise(total_amount)])))

\* the amounts of InvoiceApp._update_totals given the base and the two rates
AmountsOf(base_amount, vat_rate, withholding_rate) ==
  With(QuantizeHalfUp(Div100(Mul(base_amount, vat_rate)), -2),
       LAMBDA vat_amount :
  With(QuantizeHalfUp(Div100(Mul(base_amount, withholding_rate)), -2),
       LAMBDA withholding_amount :
  With(Sub(Add(base_amount, vat_amount), withholding_amount),
       LAMBDA total_amount :
    [base   |-> base_amount,
     vat    |-> vat_amount,
     wh     |-> withholding_amount,
     total  |-> total_amount,
     raised |-> \/ IsRaise(base_amount) \/ IsRaise(vat_amount)
                \/ IsRaise(withholding_amount) \/ IsRaise(total_amount)])))

\* the amounts InvoiceApp._update_totals computes before it touches a label
ComputeTotals(its, vat_text, withholding_text) ==
  AmountsOf(SumTotals(its, Fin(0, 0, 0)), safe_rate(vat_text),
            safe_rate(withholding_text))

\* the labels configured in order from the formatted amounts b, v, w, tt; an
\* exception leaves the remaining ones as they were in old
ConfigureLabels(raised, b, v, w, tt, old) ==
  IF raised \/ b = Raised THEN [texts |-> old, raised |-> TRUE]
  ELSE IF v = Raised
  THEN [texts |-> <<b, old[2], old[3], old[4]>>, raised |-> TRUE]
  ELSE IF w = Raised
  THEN [texts |-> <<b, v, old[3], old[4]>>, raised |-> TRUE]
  ELSE IF tt = Raised
  THEN [texts |-> <<b, v, w, old[4]>>, raised |-> TRUE]
  ELSE [texts |-> <<b, v, w, tt>>, raised |-> FALSE]

\* the four label texts after InvoiceApp._update_totals ran from the labels old
LabelsAfterUpdate(its, vat_text, withholding_text, old) ==
  With(ComputeTotals(its, vat_text, withholding_text), LAMBDA t :
    ConfigureLabels(t.raised, format_currency(t.base), format_currency(t.vat),
                    format_currency(t.wh), format_currency(t.total), old))

\* InvoiceApp._update_totals as the last call of a handler
update_totals(its, vat_text, withholding_text) ==
  With(LabelsAfterUpdate(its, vat_text, withholding_text, labels), LAMBDA r :
    /\ base_amount_label' = r.texts[1]
    /\ vat_amount_label' = r.texts[2]
    /\ withholding_amount_label' = r.texts[3]
    /\ total_amount_label' = r.texts[4]
    /\ outcome' = IF r.raised THEN "InvalidOperation" ELSE "ok")

----------------------------------------------------------------------------
(* The texts a user types *)

\* the (quantity, description, unit price) texts a user fills the line form
\* with: two lines the form accepts (1 x 0,505 and 1e30 x 1) and one line for
\* each field the form rejects
ItemForms ==
  { <<<<"1">>, <<" ", "a">>, <<"0", ",", "5", "0", "5">>>>,
    <<<<"1", "e", "3", "0">>, <<"a">>, <<"1">>>>,
    <<<<>>, <<"a">>, <<"1">>>>,
    <<<<"1">>, <<"a">>, <<"a", "b", "c">>>>,
    <<<<"1">>, <<" ">>, <<"1">>>> }

\* the texts a user writes into the VAT rate field
VatTexts == {<<"2", "1">>, <<"1">>, <<"a", "b", "c">>, <<"n", "a", "n">>}

\* the texts a user writes into the withholding rate field
WithholdingTexts == {<<"2">>, <<"0", ".", "3">>, <<"i", "n", "f">>}

----------------------------------------------------------------------------
(* Calls of the parsing and formatting functions on their own *)

\* the characters the enumerated texts are made of
Alphabet == {"0", "1", "5", ",", ".", " ", "-", "e", "n", "a"}

RECURSIVE TextsUpTo(_)
\* every text of at most n characters of Alphabet
TextsUpTo(n) ==
  IF n = 0 THEN {<<>>}
  ELSE With(TextsUpTo(n - 1), LAMBDA shorter :
         shorter \cup {Append(t, ch) : t \in shorter, ch \in Alphabet})

\* a call sequence on one text: text is the argument, value = parse_decimal(text),
\* out the formatted value, value2 = parse_decimal(out), out2 the formatted
\* value2; stage says how far the sequence got
ProbeOf(stage, text, value, out, value2, out2) ==
  [stage |-> stage, text |-> text, value |-> value, out |-> out,
   value2 |-> value2, out2 |-> out2]

NoProbe == ProbeOf("none", <<>>, InvalidOperation, <<>>, InvalidOperation, <<>>)

----------------------------------------------------------------------------
(* The form *)

\* InvoiceApp.__init__
Init ==
  /\ items = <<>>
  /\ tree = <<>>
  /\ vat_rate_var = <<"2", "1">>
  /\ withholding_rate_var = <<"2">>
  /\ base_amount_label = format_currency(Fin(0, 0, 0))
  /\ vat_amount_label = format_currency(Fin(0, 0, -2))
  /\ withholding_amount_label = format_currency(Fin(0, 0, -2))
  /\ total_amount_label = format_currency(Fin(0, 0, -2))
  /\ outcome = "ok"
  /\ probe = NoProbe
  /\ pdf = <<>>

\* the table row InvoiceApp._add_item inserts, Raised when a cell raises
RowOf(item) ==
  With(<<format_quantity(item.quantity), item.description,
         format_currency(item.unit_price), format_currency(item_total(item))>>,
       LAMBDA cells :
         IF \E i \in 1..4 : cells[i] = Raised THEN Raised ELSE cells)

\* _add_item without the check of the description
AddParsed_NoDescriptionCheck(quantity, unit_price, description) ==
  IF IsRaise(quantity) \/ IsRaise(unit_price)
  THEN /\ outcome' = "showerror"
       /\ UNCHANGED <<items, tree, labels>>
  ELSE With([quantity |-> quantity, description |-> description,
             unit_price |-> unit_price], LAMBDA item :
       With(RowOf(item), LAMBDA row :
         /\ items' = Append(items, item)
         /\ IF row = Raised
            THEN /\ outcome' = "InvalidOperation"
                 /\ UNCHANGED <<tree, labels>>
            ELSE /\ tree' = Append(tree, row)
                 /\ update_totals(items', vat_rate_var, withholding_rate_var)))

\* the effect of InvoiceApp._add_item once the fields are read: quantity and
\* unit_price are the parsed numbers, description the stripped text
AddParsed(quantity, unit_price, description) ==
  IF IsRaise(quantity) \/ IsRaise(unit_price) \/ description = <<>>
  THEN /\ outcome' = "showerror"
       /\ UNCHANGED <<items, tree, labels>>
  ELSE With([quantity |-> quantity, description |-> description,
             unit_price |-> unit_price], LAMBDA item :
       With(RowOf(item), LAMBDA row :
         /\ items' = Append(items, item)
         /\ IF row = Raised
            THEN /\ outcome' = "InvalidOperation"
                 /\ UNCHANGED <<tree, labels>>
            ELSE /\ tree' = Append(tree, row)
                 /\ update_totals(items', vat_rate_var, withholding_rate_var)))

\* InvoiceApp._add_item, pressed with the entry fields item_quantity_var,
\* item_description_var and item_unit_price_var holding the texts the user
\* typed.  The handler empties the three fields after a successful add and no
\* other handler reads them, so they are the action's inputs and not state.
add_item(item_quantity_var, item_description_var, item_unit_price_var) ==
  /\ Len(items) < MaxItems
  /\ AddParsed(parse_decimal(item_quantity_var),
               parse_decimal(item_unit_price_var),
               Strip(item_description_var))
  /\ UNCHANGED <<vat_rate_var, withholding_rate_var, probe>>
  /\ pdf' = <<>>

\* s without its i-th element
RemoveAt(s, i) == SubSeq(s, 1, i - 1) \o SubSeq(s, i + 1, Len(s))

RECURSIVE RemoveLoop_StaleIndex(_, _, _)
\* _remove_selected_item with the positions the rows had before the loop
RemoveLoop_StaleIndex(selected, done, st) ==
  IF selected = {} THEN st
  ELSE LET row   == CHOOSE r \in selected : \A o \in selected : r <= o
           index == row
       IN RemoveLoop_StaleIndex(selected \ {row}, done + 1,
                     [tree  |-> RemoveAt(st.tree, index),
                      items |-> RemoveAt(st.items, index)])

RECURSIVE RemoveLoop(_, _, _)
\* the loop of InvoiceApp._remove_selected_item: selected holds the rows still
\* to delete as their positions in the table before the loop, done of them
\* are deleted already; st is [tree, items]
RemoveLoop(selected, done, st) ==
  IF selected = {} THEN st
  ELSE LET row   == CHOOSE r \in selected : \A o \in selected : r <= o
           index == row - done
       IN RemoveLoop(selected \ {row}, done + 1,
                     [tree  |-> RemoveAt(st.tree, index),
                      items |-> RemoveAt(st.items, index)])

\* InvoiceApp._remove_selected_item with the rows selected in the table
remove_selected_item(selected) ==
  /\ UNCHANGED <<vat_rate_var, withholding_rate_var, probe>>
  /\ pdf' = <<>>
  /\ IF selected = {}
     THEN /\ outcome' = "showinfo"
          /\ UNCHANGED <<items, tree, labels>>
     ELSE With(RemoveLoop(selected, 0, [tree |-> tree, items |-> items]),
               LAMBDA st :
                 /\ tree' = st.tree
                 /\ items' = st.items
                 /\ update_totals(items', vat_rate_var, withholding_rate_var))

\* a write to vat_rate_var runs the trace callback _update_totals
write_vat_rate(text) ==
  /\ vat_rate_var' = text
  /\ update_totals(items, vat_rate_var', withholding_rate_var)
  /\ UNCHANGED <<items, tree, withholding_rate_var, probe>>
  /\ pdf' = <<>>

\* a write to withholding_rate_var runs the trace callback _update_totals
write_withholding_rate(text) ==
  /\ withholding_rate_var' = text
  /\ update_totals(items, vat_rate_var, withholding_rate_var')
  /\ UNCHANGED <<items, tree, vat_rate_var, probe>>
  /\ pdf' = <<>>

\* the item lines _generate_pdf draws, Raised when a formatting call raises;
\* the wrapping of a description over several lines is left out
PdfLines(its) ==
  With([i \in 1..Len(its) |-> RowOf(its[i])], LAMBDA lines :
    IF \E i \in 1..Len(its) : lines[i] = Raised THEN Raised ELSE lines)

\* _generate_pdf with a total that leaves the withholding out
PdfAmounts_NoWithholding(base_amount, vat_rate, withholding_rate) ==
  With(QuantizeHalfUp(Div100(Mul(base_amount, vat_rate)), -2),
       LAMBDA vat_amount :
  With(QuantizeHalfUp(Div100(Mul(base_amount, withholding_rate)), -2),
       LAMBDA withholding_amount :
    <<base_amount, vat_amount, withholding_amount,
      Add(base_amount, vat_amount)>>))

\* the amounts of the totals block of _generate_pdf: base, VAT, withholding
\* and total
PdfAmounts(base_amount, vat_rate, withholding_rate) ==
  With(QuantizeHalfUp(Div100(Mul(base_amount, vat_rate)), -2),
       LAMBDA vat_amount :
  With(QuantizeHalfUp(Div100(Mul(base_amount, withholding_rate)), -2),
       LAMBDA withholding_amount :
    <<base_amount, vat_amount, withholding_amount,
      Sub(Add(base_amount, vat_amount), withholding_amount)>>))

\* the texts of the totals block in drawing order: base, the VAT rate and
\* amount, the withholding rate and amount, the total; Raised when a
\* computation or a formatting call raises
PdfTotalsTexts(a, vat_rate, withholding_rate) ==
  IF \E i \in 1..4 : IsRaise(a[i]) THEN Raised
  ELSE With(<<format_currency(a[1]), format_rate(vat_rate),
              format_currency(a[2]), format_rate(withholding_rate),
              format_currency(a[3]), format_currency(a[4])>>,
            LAMBDA texts :
              IF \E i \in 1..6 : texts[i] = Raised THEN Raised ELSE texts)

\* InvoiceApp._generate_pdf: the document saved, <<lines, totals>>, or Raised
\* when an exception ends the method before pdf.save()
generate_pdf(its, vat_text, withholding_text) ==
  With(PdfLines(its), LAMBDA lines :
    IF lines = Raised THEN Raised
    ELSE With(safe_rate(vat_text), LAMBDA vat_rate :
         With(safe_rate(withholding_text), LAMBDA withholding_rate :
         With(PdfTotalsTexts(PdfAmounts(SumTotals(its, Fin(0, 0, 0)),
                                        vat_rate, withholding_rate),
                             vat_rate, withholding_rate),
              LAMBDA totals :
                IF totals = Raised THEN Raised
                ELSE <<lines, totals>>))))

\* what InvoiceApp._export_pdf does with the result of _generate_pdf
ExportGenerated(doc) ==
  IF doc = Raised
  THEN /\ outcome' = "showerror Error al generar PDF"
       /\ pdf' = <<>>
  ELSE /\ outcome' = "showinfo Factura creada"
       /\ pdf' = doc

\* InvoiceApp._export_pdf; file_path is what the save dialog returns, empty
\* when the user cancels it
export_pdf(file_path) ==
  /\ UNCHANGED <<items, tree, vat_rate_var, withholding_rate_var, labels, probe>>
  /\ IF items = <<>>
     THEN /\ outcome' = "showerror Factura vacia"
          /\ pdf' = <<>>
     ELSE IF file_path = <<>>
     THEN /\ outcome' = "ok"
          /\ pdf' = <<>>
     ELSE ExportGenerated(generate_pdf(items, vat_rate_var, withholding_rate_var))

\* the answers of the save dialog: cancelled, or a file name
FilePaths == {<<>>, <<"f">>}

Next ==
  \/ \E f \in ItemForms : add_item(f[1], f[2], f[3])
  \/ \E selected \in SUBSET (1..Len(tree)) : remove_selected_item(selected)
  \/ \E text \in VatTexts : write_vat_rate(text)
  \/ \E text \in WithholdingTexts : write_withholding_rate(text)

Spec == Init /\ [][Next]_vars

----------------------------------------------------------------------------
(* The form with its export button *)

\* the forms added before an export: two lines that are shown and a form
\* without a quantity
ExportItemForms ==
  { <<<<"1">>, <<" ", "a">>, <<"0", ",", "5", "0", "5">>>>,
    <<<<"3">>, <<"b">>, <<"1", "0">>>>,
    <<<<>>, <<"a">>, <<"1">>>> }

ExportVatTexts == {<<"1">>, <<"n", "a", "n">>}

ExportWithholdingTexts == {<<"2">>, <<"i", "n", "f">>}

NextExport ==
  \/ \E f \in ExportItemForms : add_item(f[1], f[2], f[3])
  \/ \E selected \in SUBSET (1..Len(tree)) : remove_selected_item(selected)
  \/ \E text \in ExportVatTexts : write_vat_rate(text)
  \/ \E text \in ExportWithholdingTexts : write_withholding_rate(text)
  \/ \E file_path \in FilePaths : export_pdf(file_path)

SpecExport == Init /\ [][NextExport]_vars

----------------------------------------------------------------------------
(* The functions called on enumerated texts *)

InitFn ==
  /\ items = <<>>
  /\ tree = <<>>
  /\ vat_rate_var = <<"2", "1">>
  /\ withholding_rate_var = <<"2">>
  /\ base_amount_label = format_currency(Fin(0, 0, 0))
  /\ vat_amount_label = format_currency(Fin(0, 0, -2))
  /\ withholding_amount_label = format_currency(Fin(0, 0, -2))
  /\ total_amount_label = format_currency(Fin(0, 0, -2))
  /\ outcome = "ok"
  /\ pdf = <<>>
  /\ \E text \in TextsUpTo(MaxLen) :
       probe = ProbeOf("text", text, InvalidOperation, <<>>, InvalidOperation, <<>>)

\* the quantized coefficient of d fits the integers of the model, or d is so
\* large that quantize raises, or d is not finite
Formattable(d) ==
  \/ d.k # "fin"
  \/ d.c = 0
  \/ NumDigits(d.c) + d.e + 3 <= 9
  \/ NumDigits(d.c) + d.e + 2 > Prec

form_vars ==
  <<items, tree, vat_rate_var, withholding_rate_var, labels, outcome, pdf>>

\* value = self._parse_decimal(text)
call_parse_decimal ==
  /\ probe.stage = "text"
  /\ probe' = [probe EXCEPT !.stage = "parsed",
                            !.value = parse_decimal(probe.text)]
  /\ UNCHANGED form_vars

\* out = self._format_currency(value)
call_format_currency ==
  /\ probe.stage = "parsed"
  /\ ~IsRaise(probe.value)
  /\ Formattable(probe.value)
  /\ probe' = [probe EXCEPT !.stage = "currency",
                            !.out = format_currency(probe.value)]
  /\ UNCHANGED form_vars

\* out = self._format_quantity(value)
call_format_quantity ==
  /\ probe.stage = "parsed"
  /\ ~IsRaise(probe.value)
  /\ Formattable(probe.value)
  /\ probe' = [probe EXCEPT !.stage = "quantity",
                            !.out = format_quantity(probe.value)]
  /\ UNCHANGED form_vars

\* value2 = self._parse_decimal(out) of a formatted quantity
call_reparse ==
  /\ probe.stage = "quantity"
  /\ probe.out # Raised
  /\ probe' = [probe EXCEPT !.stage = "reparsed",
                            !.value2 = parse_decimal(probe.out)]
  /\ UNCHANGED form_vars

\* out2 = self._format_quantity(value2)
call_reformat ==
  /\ probe.stage = "reparsed"
  /\ ~IsRaise(probe.value2)
  /\ probe' = [probe EXCEPT !.stage = "reformatted",
                            !.out2 = format_quantity(probe.value2)]
  /\ UNCHANGED form_vars

\* out2 = self._format_rate(value) of the value whose currency text is out
call_format_rate ==
  /\ probe.stage = "currency"
  /\ probe' = [probe EXCEPT !.stage = "rate",
                            !.out2 = format_rate(probe.value)]
  /\ UNCHANGED form_vars

NextFn ==
  \/ call_parse_decimal
  \/ call_format_currency
  \/ call_format_quantity
  \/ call_reparse
  \/ call_reformat
  \/ call_format_rate

SpecFn == InitFn /\ [][NextFn]_vars

----------------------------------------------------------------------------
(* Reference arithmetic of the claims: exact integers, in cents *)

\* n / d rounded to an integer, ties away from zero (d > 0)
RoundHalfUpDiv(n, d) ==
  IF n >= 0 THEN (2 * n + d) \div (2 * d)
  ELSE 0 - ((2 * (0 - n) + d) \div (2 * d))

SignedCoef(d) == IF d.s = 1 THEN 0 - d.c ELSE d.c

\* a finite number small enough for the exact reference arithmetic
IsPlain(d) == d.k = "fin" /\ d.e \in -4..2 /\ d.c < 10000

\* a finite number of whole cents
IsCents(d) == d.k = "fin" /\ d.e \in -2..0

\* the cents of a number of whole cents
CentsOf(d) == SignedCoef(d) * Pow10(d.e + 2)

\* quantity * unit_price rounded half-up to cents
RefLineCents(item) ==
  With(item.quantity.e + item.unit_price.e + 2, LAMBDA e :
    RoundHalfUpDiv(SignedCoef(item.quantity) * SignedCoef(item.unit_price)
                     * Pow10(e),
                   Pow10(0 - e)))

RECURSIVE RefBaseCents(_)
\* the sum of the rounded line totals
RefBaseCents(its) ==
  IF its = <<>> THEN 0 ELSE RefLineCents(Head(its)) + RefBaseCents(Tail(its))

RECURSIVE RefUnroundedSum(_)
\* the sum of the unrounded products quantity * unit_price, in 1E-6 units
RefUnroundedSum(its) ==
  IF its = <<>> THEN 0
  ELSE SignedCoef(Head(its).quantity) * SignedCoef(Head(its).unit_price)
         * Pow10(Head(its).quantity.e + Head(its).unit_price.e + 6)
       + RefUnroundedSum(Tail(its))

\* base * rate / 100 rounded half-up to cents
RefRateCents(base_cents, rate) ==
  RoundHalfUpDiv(base_cents * SignedCoef(rate) * Pow10(rate.e),
                 100 * Pow10(0 - rate.e))

\* base + round(base * vat / 100) - round(base * wh / 100)
RefComponentWise(base_cents, vat, wh) ==
  base_cents + RefRateCents(base_cents, vat) - RefRateCents(base_cents, wh)

\* round(base * (1 + (vat - wh) / 100)), the rates taken in 1E-4 units
RefCombined(base_cents, vat, wh) ==
  RoundHalfUpDiv(base_cents * (1000000 + SignedCoef(vat) * Pow10(vat.e + 4)
                                       - SignedCoef(wh) * Pow10(wh.e + 4)),
                 1000000)

\* every line of the list went through _add_item to its end
AllLinesShown == \A i \in 1..Len(items) : RowOf(items[i]) # Raised

PlainItems == \A i \in 1..Len(items) :
                IsPlain(items[i].quantity) /\ IsPlain(items[i].unit_price)

\* the amounts _update_totals computes in the current state
CurrentTotals == ComputeTotals(items, vat_rate_var, withholding_rate_var)

\* the four label texts _update_totals writes for the amounts t
TextsOf(t) ==
  <<format_currency(t.base), format_currency(t.vat), format_currency(t.wh),
    format_currency(t.total)>>

----------------------------------------------------------------------------
(* Claims on the form *)

\* C1: in every reachable state the computed totals are whole cents with
\* total = base + vat - withholding, the VAT and the withholding amount each
\* being base * rate / 100 rounded half-up to cents on its own.
C1_TotalsEquation ==
  With(CurrentTotals, LAMBDA t :
    t.raised \/
      /\ IsCents(t.base) /\ IsCents(t.vat) /\ IsCents(t.wh) /\ IsCents(t.total)
      /\ CentsOf(t.vat) = RefRateCents(CentsOf(t.base), safe_rate(vat_rate_var))
      /\ CentsOf(t.wh) =
           RefRateCents(CentsOf(t.base), safe_rate(withholding_rate_var))
      /\ CentsOf(t.total) = CentsOf(t.base) + CentsOf(t.vat) - CentsOf(t.wh))

\* C2: after every operation the four labels show computeTotals of the
\* current item list and the current rate texts.
C2_DisplayNeverStale ==
  AllLinesShown =>
    With(CurrentTotals, LAMBDA t : ~t.raised /\ labels = TextsOf(t))

\* C3: a rate text parse_decimal rejects never makes computeTotals raise, and
\* the totals are those of the rate 0.
C3_RejectedRateCountsAsZero ==
  AllLinesShown => With(CurrentTotals, LAMBDA t :
    /\ IsRaise(parse_decimal(vat_rate_var)) =>
         ~t.raised /\ IsCents(t.vat) /\ CentsOf(t.vat) = 0
                   /\ t.total = Sub(t.base, t.wh)
    /\ IsRaise(parse_decimal(withholding_rate_var)) =>
         ~t.raised /\ IsCents(t.wh) /\ CentsOf(t.wh) = 0
                   /\ t.total = Add(t.base, t.vat))

\* C4: for an item list built by successful adds and any two rate texts,
\* computeTotals completes and its four amounts can be displayed.
C4_TotalsNeverRaise ==
  AllLinesShown =>
    With(CurrentTotals, LAMBDA t :
      ~t.raised /\ \A i \in 1..4 : TextsOf(t)[i] # Raised)

\* C7: the base is the sum of the line totals, each rounded half-up to cents
\* before the sum, and an empty item list has base, VAT, withholding and total 0.
C7_BaseIsSumOfRoundedLines ==
  With(CurrentTotals, LAMBDA t :
    /\ (PlainItems /\ ~t.raised) =>
         IsCents(t.base) /\ CentsOf(t.base) = RefBaseCents(items)
    /\ items = <<>> =>
         /\ ~t.raised
         /\ \A a \in {t.base, t.vat, t.wh, t.total} : IsCents(a) /\ CentsOf(a) = 0)

\* the inputs C8 speaks of: plain lines and rates whose component-wise total
\* differs from the total rounded once
RoundingsDiffer ==
  /\ PlainItems
  /\ IsPlain(safe_rate(vat_rate_var)) /\ IsPlain(safe_rate(withholding_rate_var))
  /\ RefComponentWise(RefBaseCents(items), safe_rate(vat_rate_var),
                      safe_rate(withholding_rate_var))
       # RefCombined(RefBaseCents(items), safe_rate(vat_rate_var),
                     safe_rate(withholding_rate_var))

\* C8: whenever rounding the VAT and the withholding amount separately gives
\* another total than rounding base * (1 + (vat - wh) / 100) once, the form
\* computes and shows the component-wise total.
C8_ComponentWiseTotal ==
  RoundingsDiffer =>
    With(CurrentTotals, LAMBDA t :
      /\ ~t.raised
      /\ IsCents(t.total)
      /\ CentsOf(t.total) =
           RefComponentWise(RefBaseCents(items), safe_rate(vat_rate_var),
                            safe_rate(withholding_rate_var))
      /\ total_amount_label = format_currency(t.total))

\* C8, witness: one line of 0,51 with VAT 1 and withholding 0.3 shows 0,52,
\* where the total rounded once would be 0,51
C8_Witness ==
  /\ RoundingsDiffer
  /\ Len(items) = 1
  /\ total_amount_label = <<"0", ",", "5", "2">>
  /\ RefCombined(RefBaseCents(items), safe_rate(vat_rate_var),
                 safe_rate(withholding_rate_var)) = 51

\* the three fields of a line form validate
ValidForm(f) ==
  /\ ~IsRaise(parse_decimal(f[1]))
  /\ ~IsRaise(parse_decimal(f[3]))
  /\ Strip(f[2]) # <<>>

\* C5: an add whose quantity or unit price does not parse, or whose stripped
\* description is empty, shows the input error and leaves the item list as it
\* was; the list grows only by the line of a form whose three fields validate.
C5_InvalidLineIsRejected ==
  [][ /\ \A f \in ItemForms :
           (add_item(f[1], f[2], f[3]) /\ ~ValidForm(f)) =>
             (items' = items /\ outcome' = "showerror")
      /\ Len(items') > Len(items) =>
           \E f \in ItemForms :
             /\ ValidForm(f)
             /\ items' = Append(items, [quantity |-> parse_decimal(f[1]),
                                        description |-> Strip(f[2]),
                                        unit_price |-> parse_decimal(f[3])])
    ]_vars

\* C5, witness: an add was rejected with the input error after a line had
\* been added, and the line is still there
C5_Witness == outcome = "showerror" /\ Len(items) = 1 /\ Len(tree) = 1

----------------------------------------------------------------------------
(* Claims on the functions *)

\* [sign] digits with at most one "." and at least one digit, [e [sign] digits]
RefDecimalLiteral(t) ==
  LET u  == IF t # <<>> /\ Head(t) \in {"+", "-"} THEN Tail(t) ELSE t
      es == {i \in 1..Len(u) : u[i] \in {"e", "E"}}
      m  == IF es = {} THEN Len(u) ELSE (CHOOSE i \in es : TRUE) - 1
      x  == IF m + 2 <= Len(u) /\ u[m + 2] \in {"+", "-"} THEN m + 3 ELSE m + 2
  IN /\ Cardinality(es) <= 1
     /\ \A i \in 1..m : IsDigit(u[i]) \/ u[i] = "."
     /\ Cardinality({i \in 1..m : u[i] = "."}) <= 1
     /\ \E i \in 1..m : IsDigit(u[i])
     /\ es # {} => (x <= Len(u) /\ \A i \in x..Len(u) : IsDigit(u[i]))

\* C6: parse_decimal gives the same result for a text and for the text with
\* its commas replaced by dots, and it fails exactly when the stripped text
\* with dots for commas is empty or is no decimal literal.
C6_ParseDecimalAcceptsLiterals ==
  probe.stage = "parsed" =>
    /\ probe.value = parse_decimal(Replace(probe.text, ",", "."))
    /\ IsRaise(probe.value)
         <=> ~RefDecimalLiteral(Strip(Replace(probe.text, ",", ".")))

\* a finite number with at most 3 decimal places
AtMost3Decimals(v) ==
  /\ v.k = "fin"
  /\ \/ v.e >= -3
     \/ v.c = 0
     \/ (v.e >= -9 /\ v.c % Pow10(-3 - v.e) = 0)

\* C9: for a quantity of at most 3 decimal places the text format_quantity
\* gives is accepted by parse_decimal, and formatting the parsed number gives
\* the same text again.
C9_FormatQuantityRoundTrip ==
  (probe.stage \in {"reparsed", "reformatted"} /\ AtMost3Decimals(probe.value))
    => /\ ~IsRaise(probe.value2)
       /\ probe.stage = "reformatted" => probe.out2 = probe.out

\* C9, witness: a quantity whose text lost trailing zeros and holds a comma
\* went through format, parse and format
C9_Witness ==
  /\ probe.stage = "reformatted"
  /\ AtMost3Decimals(probe.value)
  /\ probe.value.e < 0 /\ probe.value.c # 0 /\ probe.value.c % 10 = 0
  /\ \E i \in 1..Len(probe.out) : probe.out[i] = ","
  /\ probe.out2 = probe.out

\* the text is [-] digits "," digit digit
IsCurrencyText(t) ==
  LET u == IF t # <<>> /\ Head(t) = "-" THEN Tail(t) ELSE t
  IN /\ Len(u) >= 4
     /\ u[Len(u) - 2] = ","
     /\ \A i \in 1..Len(u) : i # Len(u) - 2 => IsDigit(u[i])

\* the cents a currency text shows, without its sign
CentsOfText(t) ==
  LET u == IF Head(t) = "-" THEN Tail(t) ELSE t
  IN DigitsToNat(SubSeq(u, 1, Len(u) - 3) \o SubSeq(u, Len(u) - 1, Len(u)))

\* |v| rounded half-up to cents
RefAbsCents(v) ==
  RoundHalfUpDiv(v.c * Pow10(v.e + 2), Pow10(0 - (v.e + 2)))

\* C10: format_currency renders every amount as its value rounded half-up to
\* cents, with exactly two digits after a comma and no other separator.
C10_FormatCurrencyTwoDecimals ==
  probe.stage = "currency" =>
    /\ IsCurrencyText(probe.out)
    /\ (probe.value.k = "fin" /\ probe.value.e >= -9) =>
         CentsOfText(probe.out) = RefAbsCents(probe.value)

\* n / d rounded to an integer, ties to the even neighbour (d > 0)
RoundHalfEvenDiv(n, d) ==
  LET q == n \div d
      r == n % d
  IN IF 2 * r > d \/ (2 * r = d /\ q % 2 = 1) THEN q + 1 ELSE q

\* |v| rounded half-even to cents
RefAbsCentsEven(v) ==
  IF v.c = 0 THEN 0
  ELSE RoundHalfEvenDiv(v.c * Pow10(v.e + 2), Pow10(0 - (v.e + 2)))

\* |v| lies exactly between two neighbouring cents
IsCentTie(v) ==
  /\ v.k = "fin" /\ v.e <= -3 /\ v.e >= -9
  /\ 2 * (v.c % Pow10(-2 - v.e)) = Pow10(-2 - v.e)

\* the text of a rate without its "%" and its sign
RateDigits(t) ==
  LET b == SubSeq(t, 1, Len(t) - 1)
  IN IF b # <<>> /\ Head(b) = "-" THEN Tail(b) ELSE b

\* the cents a rate text shows, without its sign: the digits before the comma
\* and up to two digits after it
CentsOfRateText(t) ==
  LET u  == RateDigits(t)
      ci == FirstIndex(u, ",")
      ip == IF ci = 0 THEN u ELSE SubSeq(u, 1, ci - 1)
      fp == IF ci = 0 THEN <<>> ELSE SubSeq(u, ci + 1, Len(u))
  IN 100 * DigitsToNat(ip) + DigitsToNat(fp \o Zeros(2 - Len(fp)))

\* the text is [-] digits [ "," one or two digits, the last not 0 ] "%"
IsRateText(t) ==
  LET u  == RateDigits(t)
      ci == FirstIndex(u, ",")
  IN /\ t # <<>> /\ t[Len(t)] = "%"
     /\ u # <<>>
     /\ \A i \in 1..Len(u) : IsDigit(u[i]) \/ i = ci
     /\ ci # 0 => /\ ci > 1
                  /\ Len(u) - ci \in 1..2
                  /\ u[Len(u)] # "0"

\* C11: for a finite rate format_rate gives the rate rounded to 2 decimals
\* with ties to the even neighbour, trailing zeros stripped, a comma for the
\* decimal point and "%" at the end; on an exact tie at the third decimal the
\* rate text shows the even neighbour while format_currency of the same value
\* shows the neighbour away from zero.
C11_FormatRateHalfEven ==
  (/\ probe.stage = "rate"
   /\ probe.value.k = "fin" /\ probe.value.e >= -9
   /\ probe.out2 # Raised) =>
    /\ IsRateText(probe.out2)
    /\ CentsOfRateText(probe.out2) = RefAbsCentsEven(probe.value)
    /\ IsCentTie(probe.value) =>
         /\ CentsOfRateText(probe.out2) % 2 = 0
         /\ CentsOfText(probe.out) = (probe.value.c \div Pow10(-2 - probe.value.e)) + 1

\* C11, witness: a tie at the third decimal whose rate text and currency text
\* show different cents
C11_Witness ==
  /\ probe.stage = "rate"
  /\ IsCentTie(probe.value)
  /\ probe.out2 # Raised
  /\ CentsOfRateText(probe.out2) + 1 = CentsOfText(probe.out)

----------------------------------------------------------------------------
(* Claims on the export *)

Created == "showinfo Factura creada"

\* the base, VAT, withholding and total texts of the totals block of a document
DocTotals(doc) == <<doc[2][1], doc[2][3], doc[2][5], doc[2][6]>>

\* C12: the base, VAT, withholding and total texts of the totals block an
\* export writes are the four texts the form shows at that moment, which are
\* the formatted result of the totals computation on the current item list
\* and the two current rate texts.
C12_ExportedTotalsMatchForm ==
  [][ ((\E file_path \in FilePaths : export_pdf(file_path))
         /\ outcome' = Created) =>
        /\ DocTotals(pdf') = labels'
        /\ With(ComputeTotals(items', vat_rate_var', withholding_rate_var'),
                LAMBDA t : ~t.raised /\ DocTotals(pdf') = TextsOf(t))
    ]_vars

\* C12, witness: a document of two lines was written after the rates had been
\* edited, and the withholding it shows is not zero
C12_Witness ==
  /\ outcome = Created
  /\ Len(pdf[1]) = 2
  /\ vat_rate_var = <<"1">>
  /\ DocTotals(pdf)[3] # <<"0", ",", "0", "0">>

\* its without the elements at the positions in rows, the others in order
KeepOthers(its, rows) ==
  LET keep   == {i \in 1..Len(its) : i \notin rows}
      pos(k) == CHOOSE i \in keep : Cardinality({j \in keep : j < i}) = k - 1
  IN [k \in 1..Cardinality(keep) |-> its[pos(k)]]

----------------------------------------------------------------------------
(* Claims on the table *)

\* C14: the item list and the rows of the table have the same length, and
\* the i-th row shows the formatted quantity, the description, the formatted
\* unit price and the formatted line total of the i-th item.
C14_RowsMatchItems ==
  /\ Len(tree) = Len(items)
  /\ \A i \in 1..Len(tree) : tree[i] = RowOf(items[i])

====
